---- MODULE Spec2Model ----
(***************************************************************************)
(* Learning Rate Finder (learning_rate_finder.ipynb): the Learner, the     *)
(* LRFinder.find sweep and LRFinderStoppingCriteria.                       *)
(*                                                                         *)
(* Losses and the smoothing factor are exact rationals <<n, d>> (d > 0, in *)
(* lowest terms); None is <<0, 0>>.  Learning rates are only multiplied    *)
(* and compared for equality, so a rate is kept factorised,                *)
(* sgn * 2^e2 * 5^e5 * 11^e11, which is exact for any number of            *)
(* multiplications.  Floating-point rounding is not modelled.              *)
(***************************************************************************)
EXTENDS Integers, Sequences, FiniteSets, TLC

VARIABLES
    pc,                 \* position inside LRFinder.find
    args,               \* find's arguments: lr_start, lr_multiplier, smoothing
    lr,                 \* find's local lr
    results,            \* self.results
    stopping_criteria,  \* find's local LRFinderStoppingCriteria instance
    ret,                \* value returned by the last completed find
    learner,            \* the Learner: net, trainer, data iterator
    files,              \* contents of lr_finder.params and lr_finder.state
    net,                \* the network and data: how the loss depends on the parameters
    finds,              \* number of find calls started
    calls,              \* history: the calls made on the current criteria instance
    log,                \* history: the update-applying iterations of this find
    snap,               \* history: parameters and trainer states when the files were written
    other,              \* a find call on another LRFinder/Learner pair, same directory
    fault,              \* history: the error a collaborator raised, and where
    cbs,                \* a ContinuousBatchSampler and one iterator over it
    fsc                 \* a criteria computing in floating point, and its losses

mainvars == <<pc, args, lr, results, stopping_criteria, ret, learner, finds,
              calls, log, snap, fault>>
vars == <<mainvars, files, net, other, cbs, fsc>>

\* ------------------------------------------------------------------ bounds

MaxSweep == 24       \* sweep iterations modelled per find call
MaxFinds == 2        \* find calls modelled on one LRFinder
MaxCalls == 5        \* calls modelled on a directly constructed criteria
MaxMinIter == 4      \* largest min_iter of a directly constructed criteria
MaxBatches == 3      \* batches drawn from one ContinuousBatchSampler iterator
Precision == 7       \* significant bits of a float (53 in a Python float)

\* ------------------------------------------------------- exact rationals

Abs(x) == IF x < 0 THEN -x ELSE x

\* (In Gcd, Rat and Round each operand is bound as a value, so that it is
\* computed once.)
RECURSIVE Gcd(_, _)
Gcd(a, b) ==
    IF b = 0 THEN a ELSE CHOOSE g \in {Gcd(b, r) : r \in {a % b}} : TRUE

Reduced(n, d, g) == <<n \div g, d \div g>>

\* The fraction n / d in lowest terms, the denominator positive.
Rat(n, d) ==
    CHOOSE q \in {Reduced(u, v, Gcd(Abs(u), v)) :
                     u \in {IF d < 0 THEN -n ELSE n}, v \in {Abs(d)}} : TRUE

RInt(n) == <<n, 1>>

RECURSIVE Pow(_, _)
Pow(b, n) == IF n <= 0 THEN 1 ELSE b * Pow(b, n - 1)

\* float('nan'): every sum, difference and product with it is NaN (0 * NaN
\* included), every comparison with it is False.
NaN == <<1, 0>>
IsNaN(a) == a = NaN

RAdd(a, b) ==
    IF IsNaN(a) \/ IsNaN(b) THEN NaN
    ELSE Rat(a[1] * b[2] + b[1] * a[2], a[2] * b[2])
RSub(a, b) ==
    IF IsNaN(a) \/ IsNaN(b) THEN NaN
    ELSE Rat(a[1] * b[2] - b[1] * a[2], a[2] * b[2])
RMul(a, b) ==
    IF IsNaN(a) \/ IsNaN(b) THEN NaN
    ELSE Rat(a[1] * b[1], a[2] * b[2])
RGt(a, b) == ~IsNaN(a) /\ ~IsNaN(b) /\ a[1] * b[2] > b[1] * a[2]
RGe(a, b) == ~IsNaN(a) /\ ~IsNaN(b) /\ a[1] * b[2] >= b[1] * a[2]

None == <<0, 0>>

\* ------------------------------------------------ floating-point rounding

\* n / d scaled by a power of two into [2^(Precision-1), 2^Precision):
\* <<n', d', k>> with n' / d' = 2^k * n / d.
SignificandEnd == Pow(2, Precision)

RECURSIVE Normalize(_, _, _)
Normalize(n, d, k) ==
    IF n \div d >= SignificandEnd THEN Normalize(n, 2 * d, k - 1)
    ELSE IF 2 * (n \div d) < SignificandEnd THEN Normalize(2 * n, d, k + 1)
    ELSE <<n, d, k>>

\* The float nearest to the real x, ties to the even significand: the result
\* of every float operation is the rounded exact result.
Nearest(t, s) ==
    LET q == t[1] \div t[2]
        r == t[1] % t[2]
        m == IF 2 * r > t[2] \/ (2 * r = t[2] /\ q % 2 = 1) THEN q + 1 ELSE q
    IN  Rat(s * m * Pow(2, -t[3]), Pow(2, t[3]))

Round(x) ==
    IF IsNaN(x) \/ x[1] = 0 THEN x
    ELSE CHOOSE r \in {Nearest(t, IF x[1] < 0 THEN -1 ELSE 1) :
                          t \in {Normalize(Abs(x[1]), x[2], 0)}} : TRUE

\* The float operations: the exact result, rounded.  (Operands and exact
\* result are bound as values, so that each is computed once.)
FAdd(a, b) ==
    CHOOSE r \in {Round(x) : x \in {RAdd(u, v) : u \in {a}, v \in {b}}} : TRUE
FSub(a, b) ==
    CHOOSE r \in {Round(x) : x \in {RSub(u, v) : u \in {a}, v \in {b}}} : TRUE
FMul(a, b) ==
    CHOOSE r \in {Round(x) : x \in {RMul(u, v) : u \in {a}, v \in {b}}} : TRUE

\* ---------------------------------------------------- factorised rates

Rate(s, a, b, c) == [sgn |-> s, e2 |-> a, e5 |-> b, e11 |-> c]
RateZero == Rate(0, 0, 0, 0)
RateNone == Rate(2, 0, 0, 0)          \* lr=None
RateOne == Rate(1, 0, 0, 0)
Rate_1e6 == Rate(1, -6, -6, 0)        \* 1e-6
Rate_1e3 == Rate(1, -3, -3, 0)        \* .001
Rate_1_1 == Rate(1, -1, -1, 1)        \* 1.1
Rate_half == Rate(1, -1, 0, 0)        \* 0.5
Rate_1e308 == Rate(1, 308, 308, 0)    \* 1e308
RateInf == Rate(3, 0, 0, 0)           \* float('inf')

\* A product of floats beyond the largest double, about 2^1024, is inf (no
\* exception): 10^6 * log2 of the magnitude against 10^6 * 1024.
Overflows(r) ==
    1000000 * r.e2 + 2321928 * r.e5 + 3459432 * r.e11 >= 1024000000

\* Float multiplication of a rate by a finite multiplier.
RateMul(a, b) ==
    IF a.sgn * b.sgn = 0 THEN RateZero
    ELSE IF a = RateInf \/ b = RateInf THEN RateInf
    ELSE LET p == Rate(a.sgn * b.sgn, a.e2 + b.e2, a.e5 + b.e5, a.e11 + b.e11)
         IN  IF Overflows(p) THEN RateInf ELSE p

\* Python truth value of a rate: None and 0.0 are false.
Truthy(r) == r.sgn \in {-1, 1, 3}

\* ------------------------------------------------ LRFinderStoppingCriteria

MinIterDefault == 20

SmoothingDefault == <<3, 10>>

SC_init(smoothing, min_iter) ==
    [smoothing |-> smoothing, min_iter |-> min_iter,
     first_loss |-> None, running_mean |-> None, counter |-> 0]

\* Faulty variant: first_loss overwritten on every call.
FirstLossUpdate_always(first_loss, loss) == loss

FirstLossUpdate(first_loss, loss) ==
    IF first_loss = None THEN loss ELSE first_loss

\* Faulty variant: the conventional EMA weighting, smoothing on the new sample.
RunningMeanUpdate_conventional(smoothing, running_mean, loss) ==
    IF running_mean = None THEN loss
    ELSE RAdd(RMul(smoothing, loss), RMul(RSub(RInt(1), smoothing), running_mean))

\* Faulty variant: a NaN loss skipped by the averaging.
RunningMeanUpdate_skipnan(smoothing, running_mean, loss) ==
    IF running_mean = None THEN loss
    ELSE IF IsNaN(loss) THEN running_mean
    ELSE RAdd(RMul(RSub(RInt(1), smoothing), loss), RMul(smoothing, running_mean))

RunningMeanUpdate(smoothing, running_mean, loss) ==
    IF running_mean = None THEN loss
    ELSE RAdd(RMul(RSub(RInt(1), smoothing), loss), RMul(smoothing, running_mean))

\* Faulty variants: no minimum-iteration test; threshold of three times the
\* first loss; >= for >.
StopTest_nomin(running_mean, first_loss, counter, min_iter) ==
    RGt(running_mean, RMul(first_loss, RInt(2)))

StopTest_triple(running_mean, first_loss, counter, min_iter) ==
    RGt(running_mean, RMul(first_loss, RInt(3))) /\ counter >= min_iter

StopTest_ge(running_mean, first_loss, counter, min_iter) ==
    RGe(running_mean, RMul(first_loss, RInt(2))) /\ counter >= min_iter

StopTest(running_mean, first_loss, counter, min_iter) ==
    RGt(running_mean, RMul(first_loss, RInt(2))) /\ counter >= min_iter

\* Faulty variant: the counter counts every call twice.
CounterUpdate_two(counter) == counter + 2

\* "self.counter += 1"
CounterUpdate(counter) == counter + 1

\* __call__: the new instance state and the returned boolean.
SC_call(sc, loss) ==
    LET counter == CounterUpdate(sc.counter)
        first == FirstLossUpdate(sc.first_loss, loss)
        mean == RunningMeanUpdate(sc.smoothing, sc.running_mean, loss)
    IN  [state |-> [sc EXCEPT !.counter = counter, !.first_loss = first,
                              !.running_mean = mean],
         ret |-> StopTest(mean, first, counter, sc.min_iter)]

\* __call__ in floating point.  Faulty variants: the mean is never updated
\* after the first call; the weights do not add up to one.
FloatMeanUpdate_frozen(smoothing, running_mean, loss) ==
    IF running_mean = None THEN loss ELSE running_mean

FloatMeanUpdate_sum(smoothing, running_mean, loss) ==
    IF running_mean = None THEN loss
    ELSE FAdd(loss, FMul(smoothing, running_mean))

\* "((1 - self.smoothing) * loss) + (self.smoothing * self.running_mean)",
\* each operation rounded.
FloatMeanUpdate(smoothing, running_mean, loss) ==
    IF running_mean = None THEN loss
    ELSE FAdd(FMul(FSub(RInt(1), smoothing), loss), FMul(smoothing, running_mean))

\* The criteria as constructed, with the history of its losses: the least and
\* the greatest loss fed, the level the losses stay above once they have
\* diverged, and the answer of the last call.
FloatInit(smoothing, min_iter, level) ==
    [smoothing |-> smoothing, min_iter |-> min_iter, first_loss |-> None,
     running_mean |-> None, counter |-> 0, ret |-> FALSE,
     lo |-> None, hi |-> None, level |-> level, diverged |-> FALSE]

\* __call__ on floats.  The counter is only ever compared with min_iter:
\* of the counts above min_iter only two are told apart, min_iter + 2 being
\* followed by min_iter + 1 again.
FloatCall(sc, loss) ==
    LET counter == IF sc.counter > sc.min_iter + 1 THEN sc.min_iter + 1
                   ELSE CounterUpdate(sc.counter)
        first == FirstLossUpdate(sc.first_loss, loss)
        mean == FloatMeanUpdate(sc.smoothing, sc.running_mean, loss)
    IN  [sc EXCEPT !.counter = counter, !.first_loss = first,
                   !.running_mean = mean,
                   !.ret = StopTest(mean, first, counter, sc.min_iter),
                   !.lo = IF sc.lo = None \/ RGt(sc.lo, loss) THEN loss ELSE @,
                   !.hi = IF sc.hi = None \/ RGt(loss, sc.hi) THEN loss ELSE @]

\* ------------------------------------------------------------------ Learner

\* The loss of a forward pass.  The network and the data are the environment:
\* the loss is Base until the parameters have taken divergeAt updates and High
\* from then on, and Spike on the batches of the data stream listed in spikes.
Base == RInt(1)
High == RInt(3)
Spike == RInt(5)
Never == MaxSweep + 1

LossAt(nt, params, batch) ==
    IF batch \in nt.spikes THEN Spike
    ELSE IF params >= nt.divergeAt THEN High
    ELSE Base

AsScalar(nd) == nd[1]

\* Learner.__init__
LearnerInit ==
    [net_params |-> 0, trainer_states |-> 0, learning_rate |-> Rate_1e3,
     kv_initialized |-> FALSE, batches |-> 0, iteration_loss |-> <<None>>]

\* Faulty variant: a batch is drawn only for an iteration that takes a step.
NextBatch_stepOnly(b, take_step) == IF take_step THEN b + 1 ELSE b

\* "data, label = next(self.data_loader_iter)": the position in the data
\* stream after the call, with or without a step.
NextBatch(b, take_step) == b + 1

\* "if lr and (lr != self.trainer.learning_rate): set_learning_rate(lr)"
SetLearningRate(current, lr_arg) ==
    IF Truthy(lr_arg) /\ lr_arg # current THEN lr_arg ELSE current

\* Faulty variant: the step is taken whatever take_step says.
TrainerStep_always(L, take_step) ==
    [L EXCEPT !.net_params = @ + 1, !.trainer_states = @ + 1,
              !.kv_initialized = TRUE]

\* "if take_step: self.trainer.step(...)": every step yields new parameters
\* and advances the optimizer's update count; a step initializes the kvstore.
TrainerStep(L, take_step) ==
    IF take_step
    THEN [L EXCEPT !.net_params = @ + 1, !.trainer_states = @ + 1,
                   !.kv_initialized = TRUE]
    ELSE L

\* Learner.iteration(lr, take_step): the learner after the call.
Iteration(L, lr_arg, take_step, nt) ==
    LET L1 == [L EXCEPT !.learning_rate = SetLearningRate(@, lr_arg),
                        !.batches = NextBatch(@, take_step)]
        loss == LossAt(nt, L1.net_params, L.batches)
        L2 == TrainerStep(L1, take_step)
    IN  [L2 EXCEPT !.iteration_loss = <<loss>>]   \* an NDArray of one element

\* ------------------------------------------------------------------ LRFinder

\* What a call of find hands to its caller: None, a list, or an exception.
PyNone == [none |-> TRUE, val |-> <<>>, exc |-> ""]
PyList(s) == [none |-> FALSE, val |-> s, exc |-> ""]
PyRaised(e) == [none |-> FALSE, val |-> <<>>, exc |-> e]

\* Errors of the collaborators, and the calls of find that can raise them:
\* the forward pass inside Learner.iteration, the synchronisation of the loss
\* by asscalar(), and the two loads of the restore.
Errors == {"MXNetError", "ValueError"}
IterationPoints == {"forward", "asscalar"}
RestorePoints == {"load_params", "load_states"}
NoFault == [exc |-> "", at |-> "", iter |-> 0]

\* Faulty variants: the error of an iteration caught and the loop resumed;
\* the error of an iteration replaced by another; the error of a restore
\* swallowed.
Raise_retry(e, at) ==
    IF at \in IterationPoints THEN [pc |-> "loop", ret |-> PyNone]
    ELSE [pc |-> "raised", ret |-> PyRaised(e)]

Raise_wrapped(e, at) == [pc |-> "raised", ret |-> PyRaised("RuntimeError")]

Raise_swallowed(e, at) ==
    IF at \in RestorePoints THEN [pc |-> "plot", ret |-> PyNone]
    ELSE [pc |-> "raised", ret |-> PyRaised(e)]

\* find has no try statement: an exception raised at any of its lines leaves
\* find at that line and reaches the caller as it is.
Raise(e, at) == [pc |-> "raised", ret |-> PyRaised(e)]

\* net.save_params / trainer.save_states: the file contents written.
SaveParams(L) == <<L.net_params>>
SaveStates(L) == <<[states |-> L.trainer_states, learning_rate |-> L.learning_rate]>>

\* net.load_params / trainer.load_states (the pickled trainer state carries
\* the optimizer, and with it the learning rate).
\* Faulty variant: the parameters are not read back.
LoadParams_none(L, file) == L

LoadParams(L, file) == [L EXCEPT !.net_params = file[1]]

\* Faulty variant: only the optimizer's accumulators are read back, the
\* learning rate is left as it is.
LoadStates_keepRate(L, file) == [L EXCEPT !.trainer_states = file[1].states]

LoadStates(L, file) ==
    [L EXCEPT !.trainer_states = file[1].states,
              !.learning_rate = file[1].learning_rate]

\* Faulty variant: the trace of the previous call is kept.
ResultsInit_keep(old) == old

\* "self.results = []"
ResultsInit(old) == <<>>

\* "stopping_criteria = LRFinderStoppingCriteria(smoothing)"
\* Faulty variant: a criteria without a minimum number of iterations.
NewStoppingCriteria_nofloor(old, smoothing) == SC_init(smoothing, 0)

NewStoppingCriteria(old, smoothing) == SC_init(smoothing, MinIterDefault)

\* Variant: "return self.results".
FindReturn_results(res) == PyList(res)

\* find has no return statement.
FindReturn(res) == PyNone

\* Faulty variant: the trainer is left as the priming iteration found it.
PrimeKv_none(L) == L

\* "if not trainer._kv_initialized: trainer._init_kvstore()"
PrimeKv(L) == [L EXCEPT !.kv_initialized = TRUE]

\* Faulty variant: a configuration outside lr_start > 0, lr_multiplier > 1,
\* 0 <= smoothing < 1 is rejected.
Validate_checked(a) ==
    /\ a.lr_start.sgn = 1
    /\ a.lr_multiplier = Rate_1_1
    /\ RGe(a.smoothing, RInt(0)) /\ RGt(RInt(1), a.smoothing)

\* find tests none of its arguments: every configuration is accepted.
Validate(a) == TRUE

\* Lines 178-181: the priming iteration and the trainer initialization.
Find_Prime(a) ==
    /\ pc \in {"idle", "done"}
    /\ finds < MaxFinds
    /\ finds' = finds + 1
    /\ args' = a
    /\ IF Validate(a)
       THEN /\ learner' = PrimeKv(Iteration(learner, RateNone, FALSE, net))
            /\ log' = <<>>
            /\ pc' = "save"
            /\ UNCHANGED <<fault, ret>>
       ELSE /\ fault' = [exc |-> "ValueError", at |-> "config", iter |-> 0]
            /\ pc' = "raised"
            /\ ret' = PyRaised("ValueError")
            /\ UNCHANGED <<learner, log>>
    /\ UNCHANGED <<other, lr, results, stopping_criteria, files, net, cbs, fsc, calls, snap>>

\* Lines 184-188: snapshot to the two files, then the sweep's locals.
Find_Save ==
    /\ pc = "save"
    /\ files' = [params |-> SaveParams(learner), state |-> SaveStates(learner)]
    /\ snap' = [net_params |-> learner.net_params,
                trainer_states |-> learner.trainer_states,
                learning_rate |-> learner.learning_rate,
                batches |-> learner.batches]
    /\ lr' = args.lr_start
    /\ results' = ResultsInit(results)
    /\ stopping_criteria' = NewStoppingCriteria(stopping_criteria, args.smoothing)
    /\ calls' = IF stopping_criteria' = stopping_criteria THEN calls ELSE <<>>
    /\ pc' = "loop"
    /\ UNCHANGED <<fault, other, args, ret, learner, net, cbs, fsc, finds, log>>

\* Faulty variant: the rate is squared in the multiplier.
NextLr_twice(rate, lr_multiplier) == RateMul(RateMul(rate, lr_multiplier), lr_multiplier)

\* "lr = lr * lr_multiplier"
NextLr(rate, lr_multiplier) == RateMul(rate, lr_multiplier)

\* The history entry of one criteria call.
CallRecord(loss, r) == [loss |-> loss, ret |-> r.ret, mean |-> r.state.running_mean]

\* Faulty variants: a cap on the number of iterations; the test negated.
LoopExit_cap(stop, n) == stop \/ n >= MinIterDefault + 2

LoopExit_negated(stop, n) == ~stop

\* "if stopping_criteria(loss): break", the only exit of "while True", on the
\* n-th iteration.
LoopExit(stop, n) == stop

\* Lines 192-195: the rest of the loop body once the loss is in hand.
LoopBody(loss) ==
    LET r == SC_call(stopping_criteria, loss)
    IN  /\ results' = Append(results, <<lr, loss>>)
        /\ stopping_criteria' = r.state
        /\ calls' = Append(calls, CallRecord(loss, r))
        /\ IF LoopExit(r.ret, Len(results) + 1)
           THEN pc' = "restore" /\ lr' = lr
           ELSE pc' = "loop" /\ lr' = NextLr(lr, args.lr_multiplier)

\* Lines 189-195: one iteration of the sweep.
Find_Iterate ==
    /\ pc = "loop"
    /\ Len(results) < MaxSweep
    /\ learner' = Iteration(learner, lr, TRUE, net)
    /\ log' = Append(log, [lr |-> lr, rate |-> learner'.learning_rate,
                           loss |-> AsScalar(learner'.iteration_loss)])
    /\ LoopBody(AsScalar(learner'.iteration_loss))
    /\ UNCHANGED <<fault, other, args, ret, files, net, cbs, fsc, finds, snap>>

\* Learner.iteration up to a forward pass that raises: the learning rate is
\* set and the batch drawn; no backward pass, no step, no loss.
IterationFailed(L, lr_arg) ==
    [L EXCEPT !.learning_rate = SetLearningRate(@, lr_arg),
              !.batches = NextBatch(@, TRUE)]

\* Faulty variant: the snapshot is read back before the error leaves find.
OnIterationError_restore(L, fs) ==
    LoadStates(LoadParams(L, fs.params), fs.state)

\* The loop of find is inside no try statement: when an iteration raises,
\* the learner stays as that iteration left it.
OnIterationError(L, fs) == L

\* Lines 190-191: an iteration of the sweep in which the Learner raises e,
\* in the forward pass or when the loss is synchronised.
Find_IterateRaise(e, at) ==
    /\ pc = "loop"
    /\ Len(results) < MaxSweep
    /\ learner' = OnIterationError(IF at = "forward" THEN IterationFailed(learner, lr)
                                   ELSE Iteration(learner, lr, TRUE, net), files)
    /\ fault' = [exc |-> e, at |-> at, iter |-> Len(results) + 1]
    /\ pc' = Raise(e, at).pc
    /\ ret' = Raise(e, at).ret
    /\ UNCHANGED <<other, args, lr, results, stopping_criteria, files, net, cbs, fsc, finds,
                   calls, log, snap>>

\* Lines 197-198: a restore in which load_params or load_states raises e.
Find_RestoreRaise(e, at) ==
    /\ pc = "restore"
    /\ learner' = IF at = "load_params" THEN learner
                  ELSE LoadParams(learner, files.params)
    /\ fault' = [exc |-> e, at |-> at, iter |-> Len(results)]
    /\ pc' = Raise(e, at).pc
    /\ ret' = Raise(e, at).ret
    /\ UNCHANGED <<other, args, lr, results, stopping_criteria, files, net, cbs, fsc, finds,
                   calls, log, snap>>

\* Lines 197-198: restore from the two files.
Find_Restore ==
    /\ pc = "restore"
    /\ learner' = LoadStates(LoadParams(learner, files.params), files.state)
    /\ pc' = "plot"
    /\ UNCHANGED <<fault, other, args, lr, results, stopping_criteria, ret, files, net, cbs, fsc, finds,
                   calls, log, snap>>

\* Line 199 and the return.
Find_Plot ==
    /\ pc = "plot"
    /\ ret' = FindReturn(results)
    /\ pc' = "done"
    /\ UNCHANGED <<fault, other, args, lr, results, stopping_criteria, learner, files, net, cbs, fsc,
                   finds, calls, log, snap>>

\* ---------------------------------------------------- ContinuousBatchSampler

SamplerLens == 0 .. 3
BatchSizes == 0 .. 3
\* Indices the underlying sampler hands out at most; never reached before
\* MaxBatches batches of up to 3 indices have been yielded.
StreamCap == 3 * MaxBatches + 3

\* One pass over the underlying sampler of length n: its indices, each once,
\* in an order the sampler chooses anew on every pass.
Passes(n) == {p \in [1 .. n -> 1 .. n] : \A i, j \in 1 .. n : i # j => p[i] # p[j]}

\* ContinuousBatchSampler(sampler, batch_size) and iter() of it, the generator
\* not yet advanced.  yielded and stream are history: the batches yielded so
\* far, and the passes begun so far, concatenated.
SamplerInit(n, batch_size) ==
    [sampler |-> n, batch_size |-> batch_size, pc |-> "while", pass |-> <<>>,
     pos |-> 0, batch |-> <<>>, yielded |-> <<>>, stream |-> <<>>]

\* Faulty variant: a batch shorter than batch_size is yielded at the end of a pass.
YieldDue_keep(batch, batch_size, exhausted) ==
    Len(batch) = batch_size \/ (exhausted /\ Len(batch) > 0)

\* "if len(batch) == self._batch_size"
YieldDue(batch, batch_size, exhausted) == Len(batch) = batch_size

\* Faulty variants: the generator returns when the sampler is exhausted; the
\* incomplete batch is discarded when the sampler is exhausted.
ForExhausted_return(c) == [c EXCEPT !.pc = "returned"]

ForExhausted_discard(c) == [c EXCEPT !.pc = "while", !.batch = <<>>]

\* The for loop ends inside "while True": the next pass follows, the batch
\* under construction is kept.
ForExhausted(c) == [c EXCEPT !.pc = "while"]

\* "for i in self._sampler": a new pass over the underlying sampler begins.
Sampler_Restart ==
    /\ cbs.pc = "while"
    /\ Len(cbs.yielded) < MaxBatches
    /\ Len(cbs.stream) < StreamCap
    /\ \E p \in Passes(cbs.sampler) :
          LET c == [cbs EXCEPT !.pass = p, !.pos = 0, !.pc = "for",
                               !.stream = @ \o p]
          IN  cbs' = IF Len(p) = 0 THEN ForExhausted(c) ELSE c
    /\ UNCHANGED <<mainvars, files, net, other, fsc>>

\* One turn of the for loop: the next index is appended to the batch and the
\* batch, once full, is yielded and a new one begun.
Sampler_Take ==
    /\ cbs.pc = "for"
    /\ Len(cbs.yielded) < MaxBatches
    /\ LET i == cbs.pass[cbs.pos + 1]
           batch == Append(cbs.batch, i)
           exhausted == cbs.pos + 1 = Len(cbs.pass)
           due == YieldDue(batch, cbs.batch_size, exhausted)
           c == [cbs EXCEPT !.pos = @ + 1,
                            !.batch = IF due THEN <<>> ELSE batch,
                            !.yielded = IF due THEN Append(@, batch) ELSE @]
       IN  cbs' = IF exhausted THEN ForExhausted(c) ELSE c
    /\ UNCHANGED <<mainvars, files, net, other, fsc>>

\* --------------------------------------------------------- specifications

LrStarts == {RateZero, Rate_1e6, Rate_1e308}
LrMultipliers == {Rate_half, RateOne, Rate_1_1}
FindSmoothings == {RInt(0), <<1, 2>>, RInt(1)}
FindArgs ==
    [lr_start : LrStarts, lr_multiplier : LrMultipliers, smoothing : FindSmoothings]
DefaultArgs ==
    [lr_start |-> Rate_1e6, lr_multiplier |-> Rate_1_1, smoothing |-> SmoothingDefault]

\* Batch 0 is the priming batch of the first find, batch k its k-th sweep batch.
SpikeBatches == {{}, {0}, {1}, {MinIterDefault - 1}, {MinIterDefault}}
DivergeAts == {MinIterDefault - 5, MinIterDefault, MinIterDefault + 1, Never}
Nets == [spikes : SpikeBatches, divergeAt : DivergeAts]

\* The other pair: a Learner after two training iterations at 1e-6, its
\* LRFinder not yet called.
OtherInit(nt) ==
    [pc |-> "idle",
     learner |-> Iteration(Iteration(LearnerInit, Rate_1e6, TRUE, nt), Rate_1e6, TRUE, nt),
     args |-> DefaultArgs, lr |-> RateNone, results |-> <<>>,
     stopping_criteria |-> SC_init(SmoothingDefault, MinIterDefault),
     snap |-> [net_params |-> 0, trainer_states |-> 0, learning_rate |-> Rate_1e3, batches |-> 0]]

\* The Learner as constructed, or after one training iteration at 1e-6.
Learners(nt) == {LearnerInit, Iteration(LearnerInit, Rate_1e6, TRUE, nt)}

\* A Learner and an LRFinder constructed, find not yet called.
Init ==
    /\ pc = "idle"
    /\ args = DefaultArgs
    /\ lr = RateNone
    /\ results = <<>>
    /\ stopping_criteria = SC_init(SmoothingDefault, MinIterDefault)
    /\ ret = PyNone
    /\ net \in Nets
    /\ learner \in Learners(net)
    /\ files = [params |-> <<>>, state |-> <<>>]
    /\ finds = 0
    /\ calls = <<>>
    /\ log = <<>>
    /\ snap = [net_params |-> 0, trainer_states |-> 0, learning_rate |-> Rate_1e3, batches |-> 0]
    /\ other = OtherInit(net)
    /\ fault = NoFault
    /\ cbs = SamplerInit(1, 1)
    /\ fsc = FloatInit(RInt(0), 0, RInt(3))

Next ==
    \/ \E a \in FindArgs : Find_Prime(a)
    \/ Find_Save
    \/ Find_Iterate
    \/ Find_Restore
    \/ Find_Plot
    \/ \E e \in Errors, at \in IterationPoints : Find_IterateRaise(e, at)
    \/ \E e \in Errors, at \in RestorePoints : Find_RestoreRaise(e, at)

Spec == Init /\ [][Next]_vars

\* Two find calls running concurrently on different LRFinder/Learner pairs in
\* one working directory: both write and read lr_finder.params and
\* lr_finder.state.  The steps of the other call are those of find, on its own
\* Learner and locals.
ConcArgs == [lr_start |-> Rate_1e6, lr_multiplier |-> Rate_1_1, smoothing |-> RInt(0)]

Other_Prime ==
    /\ other.pc = "idle"
    /\ other' = [other EXCEPT
                    !.pc = "save",
                    !.args = ConcArgs,
                    !.learner = PrimeKv(Iteration(other.learner, RateNone, FALSE, net))]
    /\ UNCHANGED <<mainvars, files, net, cbs, fsc>>

Other_Save ==
    /\ other.pc = "save"
    /\ files' = [params |-> SaveParams(other.learner),
                 state |-> SaveStates(other.learner)]
    /\ other' = [other EXCEPT
                    !.pc = "loop",
                    !.snap = [net_params |-> other.learner.net_params,
                              trainer_states |-> other.learner.trainer_states,
                              learning_rate |-> other.learner.learning_rate,
                              batches |-> other.learner.batches],
                    !.lr = other.args.lr_start,
                    !.results = ResultsInit(other.results),
                    !.stopping_criteria =
                        NewStoppingCriteria(other.stopping_criteria, other.args.smoothing)]
    /\ UNCHANGED <<mainvars, net, cbs, fsc>>

Other_Iterate ==
    /\ other.pc = "loop"
    /\ Len(other.results) < MaxSweep
    /\ LET L == Iteration(other.learner, other.lr, TRUE, net)
           loss == AsScalar(L.iteration_loss)
           r == SC_call(other.stopping_criteria, loss)
           stop == LoopExit(r.ret, Len(other.results) + 1)
       IN  other' = [other EXCEPT
                       !.learner = L,
                       !.results = Append(@, <<other.lr, loss>>),
                       !.stopping_criteria = r.state,
                       !.pc = IF stop THEN "restore" ELSE "loop",
                       !.lr = IF stop THEN @ ELSE NextLr(@, other.args.lr_multiplier)]
    /\ UNCHANGED <<mainvars, files, net, cbs, fsc>>

Other_Restore ==
    /\ other.pc = "restore"
    /\ other' = [other EXCEPT
                    !.pc = "plot",
                    !.learner = LoadStates(LoadParams(@, files.params), files.state)]
    /\ UNCHANGED <<mainvars, files, net, cbs, fsc>>

Other_Plot ==
    /\ other.pc = "plot"
    /\ other' = [other EXCEPT !.pc = "done"]
    /\ UNCHANGED <<mainvars, files, net, cbs, fsc>>

InitConc ==
    /\ pc = "idle"
    /\ args = DefaultArgs
    /\ lr = RateNone
    /\ results = <<>>
    /\ stopping_criteria = SC_init(SmoothingDefault, MinIterDefault)
    /\ ret = PyNone
    /\ net \in [spikes : {{}}, divergeAt : {MinIterDefault - 5, MinIterDefault + 1}]
    /\ learner = LearnerInit
    /\ files = [params |-> <<>>, state |-> <<>>]
    /\ finds = 0
    /\ calls = <<>>
    /\ log = <<>>
    /\ snap = [net_params |-> 0, trainer_states |-> 0, learning_rate |-> Rate_1e3, batches |-> 0]
    /\ other = OtherInit(net)
    /\ fault = NoFault
    /\ cbs = SamplerInit(1, 1)
    /\ fsc = FloatInit(RInt(0), 0, RInt(3))

NextConc ==
    \/ Find_Prime(ConcArgs)
    \/ Find_Save
    \/ Find_Iterate
    \/ Find_Restore
    \/ Find_Plot
    \/ Other_Prime
    \/ Other_Save
    \/ Other_Iterate
    \/ Other_Restore
    \/ Other_Plot

SpecConc == InitConc /\ [][NextConc]_vars

\* A ContinuousBatchSampler over an underlying sampler of 0 to 3 indices, with
\* batch_size 0 to 3, iterated by a consumer that draws up to MaxBatches batches.
InitSampler ==
    /\ pc = "idle"
    /\ args = DefaultArgs
    /\ lr = RateNone
    /\ results = <<>>
    /\ stopping_criteria = SC_init(SmoothingDefault, MinIterDefault)
    /\ ret = PyNone
    /\ net = [spikes |-> {}, divergeAt |-> Never]
    /\ learner = LearnerInit
    /\ files = [params |-> <<>>, state |-> <<>>]
    /\ finds = 0
    /\ calls = <<>>
    /\ log = <<>>
    /\ snap = [net_params |-> 0, trainer_states |-> 0, learning_rate |-> Rate_1e3, batches |-> 0]
    /\ other = OtherInit(net)
    /\ fault = NoFault
    /\ \E n \in SamplerLens, b \in BatchSizes : cbs = SamplerInit(n, b)
    /\ fsc = FloatInit(RInt(0), 0, RInt(3))

NextSampler ==
    \/ Sampler_Restart
    \/ Sampler_Take

SpecSampler == InitSampler /\ [][NextSampler]_vars

\* The consumer of the iterator goes on drawing batches: the generator is
\* resumed whenever it can take a step.
SpecSamplerFair == SpecSampler /\ WF_vars(NextSampler)

\* A criteria computing in floating point inside the sweep loop: it is called
\* with one loss after the other until it answers true.  The losses are
\* arbitrary until they diverge, and at least fsc.level from then on.
\* The smoothing 0.3 is the float nearest to it; NextAfterTwo is the float
\* next above 2.
NextAfterTwo == RAdd(RInt(2), <<1, Pow(2, Precision - 2)>>)
FloatSmoothings == {RInt(0), Round(<<3, 10>>), <<1, 2>>, RInt(1)}
FloatLosses == {RInt(1), RInt(2), NextAfterTwo, RInt(3)}
FloatMinIters == {2}
FloatLevels == {NextAfterTwo, RInt(3)}

InitFloat ==
    /\ pc = "idle"
    /\ args = DefaultArgs
    /\ lr = RateNone
    /\ results = <<>>
    /\ stopping_criteria = SC_init(SmoothingDefault, MinIterDefault)
    /\ ret = PyNone
    /\ net = [spikes |-> {}, divergeAt |-> Never]
    /\ learner = LearnerInit
    /\ files = [params |-> <<>>, state |-> <<>>]
    /\ finds = 0
    /\ calls = <<>>
    /\ log = <<>>
    /\ snap = [net_params |-> 0, trainer_states |-> 0, learning_rate |-> Rate_1e3, batches |-> 0]
    /\ other = OtherInit(net)
    /\ fault = NoFault
    /\ cbs = SamplerInit(1, 1)
    /\ \E s \in FloatSmoothings, m \in FloatMinIters, level \in FloatLevels :
          fsc = FloatInit(s, m, level)

\* "if stopping_criteria(loss): break" on the next loss of the sweep.
Float_Call(loss) ==
    /\ ~fsc.ret
    /\ fsc.diverged => RGe(loss, fsc.level)
    /\ fsc' = FloatCall(fsc, loss)
    /\ UNCHANGED <<mainvars, files, net, other, cbs>>

\* The training diverges: from now on every loss is at least fsc.level.
Float_Diverge ==
    /\ ~fsc.ret
    /\ ~fsc.diverged
    /\ fsc' = [fsc EXCEPT !.diverged = TRUE]
    /\ UNCHANGED <<mainvars, files, net, other, cbs>>

NextFloat ==
    \/ \E loss \in FloatLosses : Float_Call(loss)
    \/ Float_Diverge

\* The sweep loop goes on calling the criteria until it answers true.
SpecFloat ==
    /\ InitFloat
    /\ [][NextFloat]_vars
    /\ WF_vars(\E loss \in FloatLosses : Float_Call(loss))

\* A criteria constructed directly, LRFinderStoppingCriteria(smoothing, min_iter),
\* driving the sweep loop of find on arbitrary losses; once the loop has been
\* left the instance is called directly.
Smoothings == {RInt(0), <<3, 10>>, RInt(1), <<3, 2>>}
Losses == {RInt(-1), RInt(0), RInt(1), RInt(3), NaN}

InitCriteria ==
    /\ pc = "loop"
    /\ \E s \in Smoothings, m \in 0 .. MaxMinIter :
          /\ stopping_criteria = SC_init(s, m)
          /\ args = [DefaultArgs EXCEPT !.smoothing = s]
    /\ lr = args.lr_start
    /\ results = <<>>
    /\ ret = PyNone
    /\ learner = LearnerInit
    /\ files = [params |-> <<>>, state |-> <<>>]
    /\ net = [spikes |-> {}, divergeAt |-> Never]
    /\ finds = 0
    /\ calls = <<>>
    /\ log = <<>>
    /\ snap = [net_params |-> 0, trainer_states |-> 0, learning_rate |-> Rate_1e3, batches |-> 0]
    /\ other = OtherInit(net)
    /\ fault = NoFault
    /\ cbs = SamplerInit(1, 1)
    /\ fsc = FloatInit(RInt(0), 0, RInt(3))

Sweep(loss) ==
    /\ pc = "loop"
    /\ Len(calls) < MaxCalls
    /\ LoopBody(loss)
    /\ UNCHANGED <<fault, other, args, ret, learner, files, net, cbs, fsc, finds, log, snap>>

Call(loss) ==
    /\ pc = "restore"
    /\ Len(calls) < MaxCalls
    /\ LET r == SC_call(stopping_criteria, loss)
       IN  /\ stopping_criteria' = r.state
           /\ calls' = Append(calls, CallRecord(loss, r))
    /\ UNCHANGED <<fault, other, pc, args, lr, results, ret, learner, files, net, cbs, fsc, finds, log, snap>>

NextCriteria ==
    \/ \E loss \in Losses : Sweep(loss)
    \/ \E loss \in Losses : Call(loss)

SpecCriteria == InitCriteria /\ [][NextCriteria]_vars

\* ------------------------------------------------------------------ claims

\* The recurrence m_1 = loss_1, m_k = (1 - smoothing) * loss_k + smoothing * m_(k-1)
\* over the losses fed to the current instance.
RECURSIVE MeanAt(_)
MeanAt(k) ==
    IF k = 1 THEN calls[1].loss
    ELSE RAdd(RMul(RSub(RInt(1), stopping_criteria.smoothing), calls[k].loss),
              RMul(stopping_criteria.smoothing, MeanAt(k - 1)))

\* C1: the k-th call on one instance returns true iff k >= min_iter and
\* m_k > 2 * first_loss, with m_k given by the recurrence and first_loss = loss_1.
C1_StopIff ==
    \A k \in 1 .. Len(calls) :
        /\ calls[k].mean = MeanAt(k)
        /\ calls[k].ret <=> (k >= stopping_criteria.min_iter
                             /\ RGt(MeanAt(k), RMul(RInt(2), calls[1].loss)))

\* A call returned true and the next one false, with smoothing 0.3.
C1_Witness ==
    /\ Len(calls) >= 3
    /\ stopping_criteria.smoothing = <<3, 10>>
    /\ calls[2].ret
    /\ ~calls[3].ret

\* C3: no call k < min_iter returns true, whatever the losses, and a sweep that
\* has left its loop has recorded at least min_iter points.
C3_MinIterations ==
    /\ \A k \in 1 .. Len(calls) : k < stopping_criteria.min_iter => ~calls[k].ret
    /\ pc = "restore" => Len(results) >= stopping_criteria.min_iter

\* A spike above twice the first loss on call 2 of a criteria with min_iter 3;
\* the sweep stops at its 3rd point.
C3_Witness ==
    /\ stopping_criteria.min_iter = 3
    /\ stopping_criteria.smoothing = RInt(0)
    /\ pc = "restore"
    /\ Len(results) = 3
    /\ calls[1].loss = RInt(1)
    /\ calls[2].loss = RInt(3)

ScenarioLosses == <<RInt(1), RInt(1), RInt(1), RInt(3), RInt(3)>>
ScenarioMeans == <<RInt(1), RInt(1), RInt(1), <<12, 5>>>>
ScenarioRets == <<FALSE, FALSE, FALSE, TRUE>>

InScenario ==
    /\ stopping_criteria.smoothing = <<3, 10>>
    /\ stopping_criteria.min_iter = 3
    /\ Len(calls) <= 5
    /\ \A k \in 1 .. Len(calls) : calls[k].loss = ScenarioLosses[k]

C7_FirstLoss ==
    /\ Len(calls) = 0 => stopping_criteria.first_loss = None
    /\ Len(calls) >= 1 => stopping_criteria.first_loss = calls[1].loss

\* Three calls with different losses and a smoothing outside [0,1).
C7_Witness ==
    /\ Len(calls) >= 3
    /\ stopping_criteria.smoothing = <<3, 2>>
    /\ calls[2].loss # calls[1].loss
    /\ calls[3].loss # calls[1].loss
    /\ calls[3].loss # calls[2].loss

\* C8 as stated: the first call returns false for every loss and every min_iter.
C8_FirstCallFalse == Len(calls) >= 1 => ~calls[1].ret

\* C8 amended: the first call returns true exactly when the first loss is
\* negative (loss > 2 * loss) and min_iter <= 1.
C8_FirstCall ==
    Len(calls) >= 1 =>
        (calls[1].ret <=> (calls[1].loss[1] < 0 /\ stopping_criteria.min_iter <= 1))

\* A first call that returned true, with min_iter 1.
C8_Witness ==
    /\ Len(calls) = 1
    /\ stopping_criteria.min_iter = 1
    /\ calls[1].ret

\* find is past "self.results = []": results is the trace of the current call.
InSweep == pc \in {"loop", "restore", "plot", "done"}
Returned == pc = "done"

\* C2: when find has completed, the parameters and the optimizer state are
\* those of the moment the snapshot was taken.
C2_StateRestored ==
    pc \in {"plot", "done"} =>
        /\ learner.net_params = snap.net_params
        /\ learner.trainer_states = snap.trainer_states

\* A second find has completed after a sweep of more than min_iter updates.
C2_Witness ==
    /\ Returned
    /\ finds = 2
    /\ Len(results) > MinIterDefault

\* lr_start * lr_multiplier^i over the reals, for a positive start and multiplier.
RatePowExact(start, mult, i) ==
    Rate(1, start.e2 + i * mult.e2, start.e5 + i * mult.e5, start.e11 + i * mult.e11)

\* lr_start * lr_multiplier^i, in closed form.
RatePow(start, mult, i) ==
    IF start.sgn = 0 \/ (mult.sgn = 0 /\ i > 0) THEN RateZero
    ELSE LET p == Rate(start.sgn * (IF i % 2 = 1 THEN mult.sgn ELSE 1),
                       start.e2 + i * mult.e2, start.e5 + i * mult.e5,
                       start.e11 + i * mult.e11)
         IN  IF Overflows(p) THEN RateInf ELSE p

\* 1e-6, 1.1e-6, 1.21e-6, 1.331e-6
ScenarioRates ==
    <<Rate(1, -6, -6, 0), Rate(1, -7, -7, 1), Rate(1, -8, -8, 2), Rate(1, -9, -9, 3)>>

SweepTrace == [i \in 1 .. Len(log) |-> <<log[i].lr, log[i].loss>>]

\* C5 as stated: find returns the Result Trace.
C5_ReturnsTrace == Returned => ret = PyList(results)

\* C5 amended: find returns None; the ordered (rate, loss) pairs recorded
\* during the sweep are left in self.results.
C5_TraceInResults == Returned => (ret = PyNone /\ results = SweepTrace)

\* A first find has returned.
C5_Witness == Returned /\ finds = 1 /\ Len(results) >= 1

\* C9: the priming iteration applies no update, leaves the configured learning
\* rate alone, and its loss reaches neither the trace nor the criteria.
C9_Priming ==
    /\ [][(pc \in {"idle", "done"} /\ pc' = "save") =>
             /\ learner'.net_params = learner.net_params
             /\ learner'.trainer_states = learner.trainer_states
             /\ learner'.learning_rate = learner.learning_rate
             /\ learner'.batches = learner.batches + 1
             /\ results' = results
             /\ stopping_criteria' = stopping_criteria
             /\ calls' = calls]_vars
    /\ [](InSweep => /\ stopping_criteria.counter = Len(results)
                     /\ Len(results) >= 1 =>
                            stopping_criteria.first_loss = results[1][2])

\* The priming iteration of a first find has run on a batch whose loss is a
\* spike.
C9_Witness ==
    /\ pc = "save"
    /\ finds = 1
    /\ AsScalar(learner.iteration_loss) = Spike

\* The recurrence of the running mean over the losses of the current sweep only.
RECURSIVE SweepMean(_)
SweepMean(k) ==
    IF k = 1 THEN log[1].loss
    ELSE RAdd(RMul(RSub(RInt(1), args.smoothing), log[k].loss),
              RMul(args.smoothing, SweepMean(k - 1)))

\* C10: in every find call the trace and the criteria start afresh: the trace
\* holds the points of this call only, and first_loss, running mean and
\* iteration count are those of this call's losses.
C10_FreshPerFind ==
    InSweep =>
        /\ results = SweepTrace
        /\ stopping_criteria.counter = Len(log)
        /\ stopping_criteria.smoothing = args.smoothing
        /\ Len(log) = 0 => /\ stopping_criteria.first_loss = None
                           /\ stopping_criteria.running_mean = None
        /\ Len(log) >= 1 => /\ stopping_criteria.first_loss = log[1].loss
                            /\ stopping_criteria.running_mean = SweepMean(Len(log))

\* Two points into the sweep of a second find.
C10_Witness ==
    /\ pc = "loop"
    /\ finds = 2
    /\ Len(results) = 2


\* find has left its sweep loop normally.
LoopLeft == pc \in {"restore", "plot", "done"}

\* C11: the sweep loop is left only on the criteria returning true, which takes
\* a running mean above twice the first loss; there is no iteration cap, so
\* while that has not happened find is still in its loop and has not returned.
C11_OnlyExit ==
    /\ LoopLeft =>
          /\ Len(calls) >= 1
          /\ calls[Len(calls)].ret
          /\ RGt(stopping_criteria.running_mean,
                 RMul(stopping_criteria.first_loss, RInt(2)))
    /\ pc = "loop" => \A k \in 1 .. Len(calls) : ~calls[k].ret

\* A sweep with lr_multiplier 0.5 on a network that never diverges is still in
\* its loop after every iteration modelled.
C11_Witness ==
    /\ pc = "loop"
    /\ Len(results) = MaxSweep
    /\ args.lr_multiplier = Rate_half
    /\ net = [spikes |-> {}, divergeAt |-> Never]


\* C12: under any interleaving of two concurrent find calls, each call
\* restores at its end exactly the state it snapshotted itself.
C12_OwnSnapshot ==
    /\ pc \in {"plot", "done"} =>
          /\ learner.net_params = snap.net_params
          /\ learner.trainer_states = snap.trainer_states
    /\ other.pc \in {"plot", "done"} =>
          /\ other.learner.net_params = other.snap.net_params
          /\ other.learner.trainer_states = other.snap.trainer_states


\* C13: a NaN loss is not special-cased.  Once a NaN loss has been fed, on the
\* first or any later call, running_mean is NaN after that call and after
\* every later call and each of them returns false; a sweep that has received
\* a NaN loss is still in its loop.
C13_NaNPropagates ==
    /\ \A k \in 1 .. Len(calls) :
          IsNaN(calls[k].loss) =>
             \A j \in k .. Len(calls) : IsNaN(calls[j].mean) /\ ~calls[j].ret
    /\ (\E i \in 1 .. Len(results) : IsNaN(results[i][2])) =>
          /\ pc = "loop"
          /\ IsNaN(stopping_criteria.running_mean)

\* A NaN fed after a mean that already exceeded twice the first loss (the
\* counter still below min_iter), followed by large finite losses, with the
\* counter now past min_iter: the sweep is still running.
C13_Witness ==
    /\ pc = "loop"
    /\ Len(calls) = MaxCalls
    /\ stopping_criteria.min_iter = 3
    /\ stopping_criteria.smoothing = <<3, 10>>
    /\ calls[1].loss = RInt(1)
    /\ calls[2].loss = RInt(3) /\ RGt(calls[2].mean, RInt(2))
    /\ IsNaN(calls[3].loss)
    /\ calls[4].loss = RInt(3)
    /\ calls[5].loss = RInt(3)


\* C14: an error raised by the Learner during a sweep iteration reaches the
\* caller of find unchanged.  find does not catch it (the call has ended with
\* that exception), does not retry the iteration (one batch was drawn for the
\* failed iteration and none since) and runs no further iteration (the trace,
\* the criteria calls and the completed iterations are those before it).
IterationFailure == fault.at \in IterationPoints

C14_ErrorPropagates ==
    IterationFailure =>
       /\ pc = "raised"
       /\ ret = PyRaised(fault.exc)
       /\ Len(results) = fault.iter - 1
       /\ Len(calls) = fault.iter - 1
       /\ Len(log) = fault.iter - 1
       /\ learner.batches = snap.batches + fault.iter

C14_Witness ==
    /\ IterationFailure
    /\ fault.at = "forward"
    /\ fault.exc = "ValueError"
    /\ fault.iter = 3
    /\ pc = "raised"
    /\ learner.net_params = snap.net_params + 2

\* C15: if restoring the parameters or the optimizer state fails, find does
\* not complete normally: the call has ended with the error of the load, it
\* has not gone on to plot and has not returned.
RestoreFailure == fault.at \in RestorePoints

C15_RestoreFailureSurfaced ==
    RestoreFailure =>
       /\ pc = "raised"
       /\ ret = PyRaised(fault.exc)
       /\ ret # FindReturn(results)

\* load_states fails after load_params succeeded: the parameters are those of
\* the snapshot, the optimizer state is not.
C15_Witness ==
    /\ RestoreFailure
    /\ fault.at = "load_states"
    /\ pc = "raised"
    /\ learner.net_params = snap.net_params
    /\ learner.trainer_states # snap.trainer_states


\* C16: find validates nothing.  No call ends with a configuration error, an
\* exception comes from a collaborator only, and whatever lr_start,
\* lr_multiplier and smoothing are, the call goes through the priming
\* iteration and the snapshot into the sweep loop, which starts at lr_start.
InvalidConfig(a) ==
    \/ a.lr_start.sgn # 1
    \/ a.lr_multiplier \in {Rate_half, RateOne}
    \/ ~(RGe(a.smoothing, RInt(0)) /\ RGt(RInt(1), a.smoothing))

C16_NoValidation ==
    /\ fault.at # "config"
    /\ ret.exc # "" => fault.at \in IterationPoints \cup RestorePoints
    /\ pc = "save" => learner.kv_initialized /\ Len(log) = 0
    /\ InSweep =>
          /\ files.params = <<snap.net_params>>
          /\ learner.batches = snap.batches + Len(results)
          /\ Len(results) >= 1 => results[1][1] = args.lr_start

\* A sweep in progress with lr_start = 0, lr_multiplier = 0.5 and smoothing = 1.
C16_Witness ==
    /\ pc = "loop"
    /\ args = [lr_start |-> RateZero, lr_multiplier |-> Rate_half, smoothing |-> RInt(1)]
    /\ InvalidConfig(args)
    /\ Len(results) = 3

\* C17: every call of Learner.iteration draws exactly one batch, with or
\* without a parameter update: one for the priming iteration, one per
\* SweepPoint; the restore and the plot draw none and do not rewind the stream.
C17_BatchesConsumed ==
    /\ [][(pc \in {"idle", "done"} /\ pc' = "save") =>
             learner'.batches = learner.batches + 1]_vars
    /\ [][(pc = "loop" /\ pc' \in {"loop", "restore"}) =>
             /\ learner'.batches = learner.batches + 1
             /\ Len(results') = Len(results) + 1]_vars
    /\ [][(pc \in {"save", "restore", "plot"}) =>
             learner'.batches = learner.batches]_vars
    /\ [][(pc = "save") => snap'.batches = learner.batches]_vars
    /\ [](InSweep => learner.batches = snap.batches + Len(results))

\* A find has returned with the parameters of its snapshot and the data stream
\* as many batches further as its trace is long.
C17_Witness ==
    /\ Returned
    /\ Len(results) = MinIterDefault
    /\ learner.net_params = snap.net_params
    /\ learner.batches = snap.batches + MinIterDefault


\* C18: the order of the steps of one find call.  The priming iteration and
\* the trainer initialization are complete when the snapshot is taken; the
\* snapshot is taken of that state, before the first sweep iteration; the
\* parameters change only in a sweep iteration or in the restore; the restore
\* follows the last sweep iteration and precedes the plot, and nothing is
\* updated after it.
C18_StepOrder ==
    /\ [](pc = "save" => /\ learner.kv_initialized
                         /\ learner.iteration_loss # <<None>>
                         /\ Len(log) = 0)
    /\ [][(pc = "save") =>
             /\ pc' = "loop"
             /\ learner' = learner
             /\ files' = [params |-> SaveParams(learner), state |-> SaveStates(learner)]
             /\ Len(results') = 0]_vars
    /\ [][(learner'.net_params # learner.net_params
            \/ learner'.trainer_states # learner.trainer_states) =>
             pc \in {"loop", "restore"}]_vars
    /\ [][(pc = "restore" /\ pc' = "plot") =>
             /\ results' = results /\ log' = log /\ calls' = calls
             /\ Len(calls) >= 1 /\ calls[Len(calls)].ret
             /\ learner'.net_params = files.params[1]
             /\ learner'.trainer_states = files.state[1].states]_vars
    /\ [][(pc = "plot") => pc' = "done" /\ learner' = learner /\ results' = results]_vars
    /\ [][(pc = "done" /\ pc' = "done") => learner' = learner]_vars

\* A second find on a Learner that had never taken a step is about to
\* snapshot after its priming iteration.
C18_Witness ==
    /\ pc = "save"
    /\ finds = 2
    /\ learner.kv_initialized
    /\ learner.net_params = 0
    /\ Len(results) >= MinIterDefault


\* C19: for every SweepPoint (r, loss) of the trace, the learning rate
\* configured in the trainer during the iteration that produced loss was r,
\* for every lr_start (0 included) and every rate configured before.
C19_RateApplied ==
    InSweep =>
       /\ Len(log) = Len(results)
       /\ \A i \in 1 .. Len(results) :
             /\ log[i].lr = results[i][1]
             /\ log[i].rate = results[i][1]


\* C20: the order inside a sweep iteration.  The loss is in hand before the
\* SweepPoint is appended (no point without a synchronised loss), the point
\* is appended and the criterion evaluated on that very loss, and the rate is
\* multiplied only after a false answer: the criterion answered false for
\* every point but the last and true for the last, the last point carries the
\* un-multiplied rate, each earlier point is followed by its multiple, and the
\* criterion is not called again once it has answered true.
C20_IterationOrder ==
    /\ [](fault.at = "asscalar" =>
             Len(results) = fault.iter - 1 /\ Len(calls) = fault.iter - 1)
    /\ [](InSweep =>
             /\ Len(calls) = Len(results)
             /\ Len(log) = Len(results)
             /\ \A i \in 1 .. Len(results) :
                   /\ results[i][2] = log[i].loss
                   /\ calls[i].loss = results[i][2]
                   /\ i < Len(results) =>
                         /\ ~calls[i].ret
                         /\ results[i + 1][1] = NextLr(results[i][1], args.lr_multiplier)
             /\ (LoopLeft /\ Len(results) >= 1) =>
                   /\ calls[Len(calls)].ret
                   /\ lr = results[Len(results)][1]
             /\ (pc = "loop" /\ Len(results) >= 1) =>
                   /\ ~calls[Len(calls)].ret
                   /\ lr = NextLr(results[Len(results)][1], args.lr_multiplier))
    /\ [][LoopLeft =>
             /\ calls' = calls
             /\ stopping_criteria' = stopping_criteria
             /\ lr' = lr]_vars

\* A sweep has been stopped by a spike on its last batch: the last point is
\* at 1e-6 * 1.1^19, not at 1e-6 * 1.1^20.
C20_Witness ==
    /\ pc = "restore"
    /\ Len(results) = MinIterDefault
    /\ results[MinIterDefault][2] = Spike
    /\ args.lr_multiplier = Rate_1_1
    /\ lr = Rate(1, -25, -25, 19)


\* The order of two positive rates, a < b, exactly: b / a = 2^x * 5^y * 11^z
\* is compared with 1 on integers; inf is above every finite rate.
RateLt(a, b) ==
    IF a = RateInf THEN FALSE
    ELSE IF b = RateInf THEN TRUE
    ELSE LET x == b.e2 - a.e2
             y == b.e5 - a.e5
             z == b.e11 - a.e11
         IN  Pow(2, x) * Pow(5, y) * Pow(11, z) > Pow(2, -x) * Pow(5, -y) * Pow(11, -z)

ValidRates == args.lr_start.sgn = 1 /\ args.lr_multiplier = Rate_1_1

\* One point per sweep iteration, none removed or reordered: every iteration
\* appends one point to the trace and adds one to the counter of the criteria,
\* and the length of the trace is that counter.
OnePointPerIteration ==
    /\ [][(pc = "loop" /\ pc' \in {"loop", "restore"}) =>
             /\ Len(results') = Len(results) + 1
             /\ SubSeq(results', 1, Len(results)) = results
             /\ results'[Len(results')][1] = lr
             /\ stopping_criteria'.counter = stopping_criteria.counter + 1]_vars
    /\ [][(InSweep /\ pc # "loop") => results' = results]_vars
    /\ [](InSweep => Len(results) = stopping_criteria.counter)

C22_AtLeastMinIter ==
    /\ InSweep =>
          /\ stopping_criteria.smoothing = args.smoothing
          /\ stopping_criteria.min_iter = MinIterDefault
    /\ LoopLeft => Len(results) >= MinIterDefault
    /\ Returned => Len(results) >= MinIterDefault

\* A find has returned with exactly 20 points: the mean had exceeded twice the
\* first loss before, and only the minimum of iterations kept the sweep going.
C22_Witness ==
    /\ Returned
    /\ Len(results) = MinIterDefault
    /\ args.smoothing = RInt(0)
    /\ net.divergeAt < MinIterDefault
    /\ \E i \in 1 .. MinIterDefault - 1 : calls[i].mean = High /\ ~calls[i].ret


\* ------------------------------------------- ContinuousBatchSampler claims

ValidSampler == cbs.sampler >= 1 /\ cbs.batch_size >= 1

\* The indices the for loop has taken from the underlying sampler so far.
Consumed == Len(cbs.stream) - (Len(cbs.pass) - cbs.pos)

\* The concatenation of the first n yielded batches.
RECURSIVE Flatten(_)
Flatten(n) == IF n = 0 THEN <<>> ELSE Flatten(n - 1) \o cbs.yielded[n]

\* C23: iterating a ContinuousBatchSampler never ends on its own.  For a
\* non-empty sampler and batch_size >= 1 the generator never returns, an
\* exhausted sampler is always iterated again, and after any number of
\* batches another batch is eventually yielded (as long as the consumer draws).
C23_NeverEnds ==
    /\ [](cbs.pc \in {"while", "for"})
    /\ (ValidSampler /\ cbs.pc = "while" /\ Len(cbs.yielded) < MaxBatches)
          ~> (cbs.pc = "for")
    /\ \A n \in 0 .. MaxBatches - 1 :
          (ValidSampler /\ Len(cbs.yielded) = n) ~> (Len(cbs.yielded) = n + 1)

\* Three batches of three indices have been drawn from a sampler of two: the
\* sampler has been exhausted and restarted four times.
C23_Witness ==
    /\ cbs.sampler = 2
    /\ cbs.batch_size = 3
    /\ Len(cbs.yielded) = 3
    /\ Len(cbs.stream) = 10

\* C28: every yielded batch has exactly batch_size indices.  The batch under
\* construction is shorter than batch_size, and at the end of a pass it is
\* kept, not yielded: it holds the last indices taken, and is completed with
\* the first indices of the next pass.
C28_FullBatches ==
    /\ \A k \in 1 .. Len(cbs.yielded) : Len(cbs.yielded[k]) = cbs.batch_size
    /\ cbs.batch_size >= 1 =>
          /\ Len(cbs.batch) < cbs.batch_size
          /\ Len(cbs.batch) = Consumed % cbs.batch_size
          /\ Len(cbs.yielded) = Consumed \div cbs.batch_size
          /\ cbs.batch = SubSeq(cbs.stream, Consumed - Len(cbs.batch) + 1, Consumed)

\* A sampler of three with batch_size two: the second batch is the last index
\* of the first pass and the first index of the second pass.
C28_Witness ==
    /\ cbs.sampler = 3
    /\ cbs.batch_size = 2
    /\ Len(cbs.yielded) = 2
    /\ cbs.yielded[2] = <<cbs.stream[3], cbs.stream[4]>>
    /\ cbs.stream[3] = cbs.stream[4]

\* C29: no index is dropped, duplicated or reordered: for every n, the first
\* n yielded batches, concatenated, are the first n * batch_size elements of
\* the successive passes over the underlying sampler, concatenated.
C29_StreamPreserved ==
    \A n \in 0 .. Len(cbs.yielded) :
       /\ n * cbs.batch_size <= Len(cbs.stream)
       /\ Flatten(n) = SubSeq(cbs.stream, 1, n * cbs.batch_size)

\* Three batches of two from a sampler of three, the two passes in different
\* orders.
C29_Witness ==
    /\ cbs.sampler = 3
    /\ cbs.batch_size = 2
    /\ Len(cbs.yielded) = 3
    /\ SubSeq(cbs.stream, 1, 3) # SubSeq(cbs.stream, 4, 6)
    /\ Flatten(3) = SubSeq(cbs.stream, 1, 6)


\* ------------------------------------------------- floating-point claims

\* The hypotheses of C24: a smoothing in [0,1), a positive first loss, and the
\* losses from now on at least a level above twice the first loss.
Diverged ==
    /\ fsc.first_loss # None
    /\ RGt(fsc.first_loss, RInt(0))
    /\ RGe(fsc.smoothing, RInt(0)) /\ RGt(RInt(1), fsc.smoothing)
    /\ fsc.diverged
    /\ RGt(fsc.level, RMul(fsc.first_loss, RInt(2)))

\* The level exceeds twice the first loss by more than rounding can absorb:
\* the exact step of the mean at twice the first loss,
\* (1 - smoothing) * (level - 2 * first_loss), is at least 1/8 of the first loss.
ClearlyDiverged ==
    /\ Diverged
    /\ RGe(RMul(RSub(RInt(1), fsc.smoothing),
                RSub(fsc.level, RMul(fsc.first_loss, RInt(2)))),
           RMul(fsc.first_loss, <<1, 8>>))

Tolerance ==
    LET a == IF RGt(RInt(0), fsc.lo) THEN RSub(RInt(0), fsc.lo) ELSE fsc.lo
        b == IF RGt(RInt(0), fsc.hi) THEN RSub(RInt(0), fsc.hi) ELSE fsc.hi
    IN  RMul(IF RGt(a, b) THEN a ELSE b, <<4, SignificandEnd>>)

Fed == fsc.first_loss # None
BoundedSmoothing == RGe(fsc.smoothing, RInt(0)) /\ RGe(RInt(1), fsc.smoothing)

\* C27 as stated: for a smoothing in [0,1] the running mean lies between the
\* least and the greatest loss fed so far, and a call answers true only if
\* some loss fed so far was greater than twice the first loss.
C27_MeanWithinLosses ==
    (Fed /\ BoundedSmoothing) =>
       /\ RGe(fsc.running_mean, fsc.lo)
       /\ RGe(fsc.hi, fsc.running_mean)
       /\ fsc.ret => RGt(fsc.hi, RMul(fsc.first_loss, RInt(2)))

\* A smoothing of at most 1/2, or of exactly 1: the rounding errors of the
\* mean are damped by the factor smoothing and do not build up.
ModerateSmoothing ==
    \/ RGe(fsc.smoothing, RInt(0)) /\ RGe(<<1, 2>>, fsc.smoothing)
    \/ fsc.smoothing = RInt(1)

\* C27 amended: for a smoothing in [0,1/2] or of 1 the running mean lies
\* between the least and the greatest loss up to the rounding error of the
\* arithmetic, and a call answers true only if some loss was, up to that
\* error, greater than twice the first loss.
C27_MeanWithinLossesRounded ==
    (Fed /\ ModerateSmoothing) =>
       /\ RGe(fsc.running_mean, RSub(fsc.lo, Tolerance))
       /\ RGe(RAdd(fsc.hi, Tolerance), fsc.running_mean)
       /\ fsc.ret => RGt(RAdd(fsc.hi, Tolerance), RMul(fsc.first_loss, RInt(2)))

\* A running mean outside the losses fed so far.
C27_Witness ==
    /\ Fed /\ BoundedSmoothing
    /\ fsc.counter >= 2
    /\ \/ RGt(fsc.lo, fsc.running_mean)
       \/ RGt(fsc.running_mean, fsc.hi)


\* The last sweep iteration of the call set the trainer's learning rate: its
\* rate was neither 0.0 nor the rate already configured.
SweepSetRate ==
    /\ Len(results) > 0
    /\ Truthy(results[Len(results)][1])
    /\ results[Len(results)][1] # snap.learning_rate

\* C25: after find has returned normally the learning rate of the trainer is
\* the one it had before find was called, not the last rate of the sweep.
\* The priming iteration leaves the rate alone, the snapshot records it, and
\* the restore puts it back.
C25_LearningRateRestored ==
    /\ [][(pc' = "save") => learner'.learning_rate = learner.learning_rate]_vars
    /\ [][(pc = "save") => snap'.learning_rate = learner.learning_rate]_vars
    /\ [](pc \in {"plot", "done"} => learner.learning_rate = snap.learning_rate)
    /\ [](Returned /\ SweepSetRate =>
             learner.learning_rate # results[Len(results)][1])

\* A find from 1e-6 with multiplier 1.1 has returned after 20 points: its last
\* sweep rate was 1e-6 * 1.1^19 and the trainer is back at the rate it was
\* constructed with.
C25_Witness ==
    /\ Returned
    /\ SweepSetRate
    /\ args.lr_start = Rate_1e6
    /\ args.lr_multiplier = Rate_1_1
    /\ Len(results) = MinIterDefault
    /\ results[Len(results)][1] = Rate(1, -25, -25, 19)
    /\ learner.learning_rate = Rate_1e3


\* The updates the sweep has applied when its iteration fault.iter raises: one
\* for every iteration before it, and that of the failing iteration when the
\* error only surfaces at the synchronisation of the loss.
UpdatesApplied == fault.iter - (IF fault.at = "asscalar" THEN 0 ELSE 1)

\* C26: when a sweep iteration raises, find ends without restoring.  The
\* parameters and the optimizer state are those the sweep reached, the
\* configured learning rate is the rate of the failing iteration (the rate
\* configured before for a rate of 0.0), the two files still hold the
\* snapshot, the trace holds exactly the points of the iterations completed
\* before the failing one, and nothing changes any of this afterwards.
C26_NoRestoreOnFailure ==
    /\ [](IterationFailure =>
             /\ learner.net_params = snap.net_params + UpdatesApplied
             /\ learner.trainer_states = snap.trainer_states + UpdatesApplied
             /\ learner.learning_rate =
                   (IF Truthy(lr) THEN lr ELSE snap.learning_rate)
             /\ files.params = <<snap.net_params>>
             /\ Len(results) = fault.iter - 1
             /\ \A i \in 1 .. Len(results) :
                   results[i] = <<log[i].lr, log[i].loss>>)
    /\ [][(pc = "loop" /\ pc' = "raised") => results' = results]_vars
    /\ [][(pc = "raised") => learner' = learner /\ results' = results]_vars

\* The fourth iteration of a sweep from 1e-6 has raised at the
\* synchronisation of its loss: four updates are applied, three points are
\* recorded and the trainer is left at 1.331e-6.
C26_Witness ==
    /\ IterationFailure
    /\ fault.at = "asscalar"
    /\ fault.iter = 4
    /\ Len(results) = 3
    /\ args.lr_start = Rate_1e6 /\ args.lr_multiplier = Rate_1_1
    /\ learner.net_params = snap.net_params + 4
    /\ learner.learning_rate = Rate(1, -9, -9, 3)
    /\ learner.learning_rate # snap.learning_rate

====
